---- MODULE Spec2Model ----
(***************************************************************************)
(* LifeSim financial state-transition engine (backend/game_engine.py,      *)
(* backend/utils.py, backend/expense_constraints.py) and the step flow of  *)
(* backend/main.py process_decision.                                       *)
(*                                                                         *)
(* Money amounts are Python floats in the source; here they are exact      *)
(* integers (whole euros).  fi_score is an exact rational [num, den] with  *)
(* den > 0.  years_passed (months_passed / 12.0) is held in twelfths of a  *)
(* year.                                                                   *)
(***************************************************************************)
EXTENDS Integers, Sequences, FiniteSets, TLC

VARIABLES state, effect, prev, op, txn, cash_flow_data, flow_log, call, result

vars == <<state, effect, prev, op, txn, cash_flow_data, flow_log, call, result>>

(***************************************************************************)
(* Bounds of the model                                                     *)
(***************************************************************************)
\* steps explored by the financial specification
MaxSteps == 3
\* steps explored by the clock specification (more than three simulated years
\* would add nothing: 37 steps cross the month-12 boundary)
MaxClockSteps == 37
\* steps explored by the process_decision specification
MaxFlowSteps == 7

None == "None"

(***************************************************************************)
(* Small arithmetic helpers                                                *)
(***************************************************************************)
abs(x) == IF x < 0 THEN -x ELSE x

Min(a, b) == IF a <= b THEN a ELSE b

Max(a, b) == IF a >= b THEN a ELSE b

(***************************************************************************)
(* utils.py                                                                *)
(***************************************************************************)
\* rationals n/d with d > 0
RatLeq(a, b) == a.num * b.den <= b.num * a.den

Rat(n) == [num |-> n, den |-> 1]

\* (passive_income / monthly_expenses) * 100, capped above at 100
calculate_fi_score(passive_income, monthly_expenses) ==
    IF monthly_expenses <= 0
    THEN Rat(0)
    ELSE LET fi == [num |-> passive_income * 100, den |-> monthly_expenses]
         IN  IF RatLeq(fi, Rat(100)) THEN fi ELSE Rat(100)

clamp(value, min_value, max_value) == Max(min_value, Min(value, max_value))
\* a metric update that forgets the upper bound
update_metric_unbounded_above(current, change) == Max(0, current + change)


update_metric(current, change) == clamp(current + change, 0, 100)

calculate_net_worth(money, investments, debts) == money + investments - debts

(***************************************************************************)
(* game_engine.py: DecisionEffect                                          *)
(***************************************************************************)
EmptyDict == [k \in {} |-> None]

DecisionEffect ==
    [money_change |-> 0, investment_change |-> 0, debt_change |-> 0,
     income_change |-> 0, expense_change |-> 0, passive_income_change |-> 0,
     expense_housing_change |-> 0, expense_food_change |-> 0,
     expense_transport_change |-> 0, expense_utilities_change |-> 0,
     expense_subscriptions_change |-> 0, expense_insurance_change |-> 0,
     expense_other_change |-> 0,
     energy_change |-> 0, motivation_change |-> 0, social_change |-> 0,
     knowledge_change |-> 0,
     asset_updates |-> EmptyDict, risk_factor_updates |-> EmptyDict]

\* the nonzero changes, in the order the description lists them
create_transaction_description(e) ==
    LET item(label, v) == IF v # 0 THEN <<[label |-> label, amount |-> v]>> ELSE <<>>
        changes == item("Cash", e.money_change)
                   \o item("Investments", e.investment_change)
                   \o item("Debt", e.debt_change)
                   \o item("Monthly Income", e.income_change)
                   \o item("Monthly Expenses", e.expense_change)
                   \o item("Passive Income", e.passive_income_change)
    IN  IF changes # <<>> THEN changes ELSE <<[label |-> "No financial changes", amount |-> 0]>>

(***************************************************************************)
(* game_engine.py: apply_monthly_cash_flow                                 *)
(***************************************************************************)
\* a cash flow that leaves the deficit in money
cash_flow_keeps_negative_cash(s) == [state |-> s, debt_from_deficit |-> 0]

\* lines 162-170: a negative balance becomes debt
cash_flow_convert_negative_cash(s) ==
    IF s.money < 0
    THEN [state |-> [s EXCEPT !.debts = s.debts + abs(s.money), !.money = 0],
          debt_from_deficit |-> abs(s.money)]
    ELSE [state |-> s, debt_from_deficit |-> 0]

\* a cash flow that runs on every step of the month
cash_flow_applies_every_step(s) == TRUE

\* line 139: only the first step of a month pays
cash_flow_applies(s) == s.month_phase = 1

\* a cash flow that forgets the passive income
cash_flow_salary_only(s) == s.monthly_income

\* lines 148-149
cash_flow_total_income(s) == s.monthly_income + s.passive_income

apply_monthly_cash_flow(s) ==
    IF ~cash_flow_applies(s)
    THEN [state |-> s,
          summary |-> [cash_change |-> 0, income_received |-> 0, expenses_paid |-> 0,
                       debt_from_deficit |-> 0, cash_balance |-> s.money,
                       applied |-> FALSE]]
    ELSE LET total_income == cash_flow_total_income(s)
             s1 == [s EXCEPT !.money = (s.money + total_income) - s.monthly_expenses]
             c  == cash_flow_convert_negative_cash(s1)
         IN  [state |-> c.state,
              summary |-> [cash_change |-> total_income - c.state.monthly_expenses,
                           income_received |-> total_income,
                           expenses_paid |-> c.state.monthly_expenses,
                           debt_from_deficit |-> c.debt_from_deficit,
                           cash_balance |-> c.state.money,
                           applied |-> TRUE]]

(***************************************************************************)
(* game_engine.py: apply_decision_effects                                  *)
(***************************************************************************)
\* an applier that forgets the investments
effects_add_deltas_without_investments(s, e) ==
    [s EXCEPT !.money = s.money + e.money_change,
              !.debts = s.debts + e.debt_change,
              !.monthly_income = s.monthly_income + e.income_change,
              !.monthly_expenses = s.monthly_expenses + e.expense_change,
              !.passive_income = s.passive_income + e.passive_income_change,
              !.expense_housing = s.expense_housing + e.expense_housing_change,
              !.expense_food = s.expense_food + e.expense_food_change,
              !.expense_transport = s.expense_transport + e.expense_transport_change,
              !.expense_utilities = s.expense_utilities + e.expense_utilities_change,
              !.expense_subscriptions = s.expense_subscriptions + e.expense_subscriptions_change,
              !.expense_insurance = s.expense_insurance + e.expense_insurance_change,
              !.expense_other = s.expense_other + e.expense_other_change]

\* lines 198-213: every delta is added onto its field
effects_add_deltas(s, e) ==
    [s EXCEPT !.money = s.money + e.money_change,
              !.investments = s.investments + e.investment_change,
              !.debts = s.debts + e.debt_change,
              !.monthly_income = s.monthly_income + e.income_change,
              !.monthly_expenses = s.monthly_expenses + e.expense_change,
              !.passive_income = s.passive_income + e.passive_income_change,
              !.expense_housing = s.expense_housing + e.expense_housing_change,
              !.expense_food = s.expense_food + e.expense_food_change,
              !.expense_transport = s.expense_transport + e.expense_transport_change,
              !.expense_utilities = s.expense_utilities + e.expense_utilities_change,
              !.expense_subscriptions = s.expense_subscriptions + e.expense_subscriptions_change,
              !.expense_insurance = s.expense_insurance + e.expense_insurance_change,
              !.expense_other = s.expense_other + e.expense_other_change]

SumOfCategories(s) ==
    s.expense_housing + s.expense_food + s.expense_transport + s.expense_utilities
    + s.expense_subscriptions + s.expense_insurance + s.expense_other
\* an applier that trusts the aggregate delta
effects_keep_aggregate_expenses(s) == s

\* lines 215-219
effects_recalculate_expenses(s) == [s EXCEPT !.monthly_expenses = SumOfCategories(s)]
\* a conversion that does not report the deficit in debt_change
effects_convert_unreported(s, debt_change) ==
    IF s.money < 0
    THEN [state |-> [s EXCEPT !.debts = s.debts + abs(s.money), !.money = 0],
          debt_change |-> debt_change]
    ELSE [state |-> s, debt_change |-> debt_change]

\* lines 221-229
effects_convert_negative_cash(s, debt_change) ==
    IF s.money < 0
    THEN [state |-> [s EXCEPT !.debts = s.debts + abs(s.money), !.money = 0],
          debt_change |-> debt_change + abs(s.money)]
    ELSE [state |-> s, debt_change |-> debt_change]

\* lines 231-237
effects_update_life_metrics(s, e) ==
    [s EXCEPT !.energy = update_metric(s.energy, e.energy_change),
              !.motivation = update_metric(s.motivation, e.motivation_change),
              !.social_life = update_metric(s.social_life, e.social_change),
              !.financial_knowledge = update_metric(s.financial_knowledge, e.knowledge_change)]

\* lines 239-244: None deletes a present key, any other value upserts
effects_update_assets(assets, updates) ==
    LET removed == {k \in DOMAIN updates : updates[k] = None}
        upserted == {k \in DOMAIN updates : updates[k] # None}
    IN  [k \in (DOMAIN assets \ removed) \cup upserted |->
            IF k \in upserted THEN updates[k] ELSE assets[k]]

\* lines 246-248
effects_update_risk_factors(risk_factors, updates) ==
    [k \in DOMAIN risk_factors \cup DOMAIN updates |->
        IF k \in DOMAIN updates THEN updates[k] ELSE risk_factors[k]]

\* lines 250-252
effects_recalculate_fi_score(s) ==
    [s EXCEPT !.fi_score = calculate_fi_score(s.passive_income, s.monthly_expenses)]
\* a clock that ages the player in the first month of each year
effects_advance_clock_late_birthday(s) ==
    LET s1 == [s EXCEPT !.current_step = s.current_step + 1,
                        !.month_phase = s.month_phase + 1]
    IN  IF s1.month_phase > 3
        THEN LET months == s1.months_passed + 1
             IN  [s1 EXCEPT !.month_phase = 1,
                            !.months_passed = months,
                            !.current_age = IF months % 12 = 1
                                            THEN s1.current_age + 1
                                            ELSE s1.current_age,
                            !.years_passed = months]
        ELSE s1

\* lines 254-267
effects_advance_clock(s) ==
    LET s1 == [s EXCEPT !.current_step = s.current_step + 1,
                        !.month_phase = s.month_phase + 1]
    IN  IF s1.month_phase > 3
        THEN LET months == s1.months_passed + 1
             IN  [s1 EXCEPT !.month_phase = 1,
                            !.months_passed = months,
                            !.current_age = IF months % 12 = 0
                                            THEN s1.current_age + 1
                                            ELSE s1.current_age,
                            !.years_passed = months]
        ELSE s1

apply_decision_effects(s, e) ==
    LET s1 == effects_recalculate_expenses(effects_add_deltas(s, e))
        c  == effects_convert_negative_cash(s1, e.debt_change)
        s2 == effects_update_life_metrics(c.state, e)
        s3 == [s2 EXCEPT !.assets = effects_update_assets(s2.assets, e.asset_updates),
                         !.risk_factors = effects_update_risk_factors(s2.risk_factors,
                                                                      e.risk_factor_updates)]
        s4 == effects_advance_clock(effects_recalculate_fi_score(s3))
    IN  [state |-> s4,
         summary |->
            [cash_change |-> e.money_change,
             investment_change |-> e.investment_change,
             debt_change |-> c.debt_change,
             monthly_income_change |-> e.income_change,
             monthly_expense_change |-> e.expense_change,
             passive_income_change |-> e.passive_income_change,
             expense_housing_change |-> e.expense_housing_change,
             expense_food_change |-> e.expense_food_change,
             expense_transport_change |-> e.expense_transport_change,
             expense_utilities_change |-> e.expense_utilities_change,
             expense_subscriptions_change |-> e.expense_subscriptions_change,
             expense_insurance_change |-> e.expense_insurance_change,
             expense_other_change |-> e.expense_other_change,
             cash_balance |-> s4.money,
             investment_balance |-> s4.investments,
             debt_balance |-> s4.debts,
             monthly_income_total |-> s4.monthly_income,
             monthly_expense_total |-> s4.monthly_expenses,
             passive_income_total |-> s4.passive_income,
             description |-> create_transaction_description(e)]]

(***************************************************************************)
(* main.py: process_decision (one completed step)                          *)
(***************************************************************************)
\* a step that applies the decision before the monthly cash flow
process_decision_effects_first(s, e) ==
    LET tx == apply_decision_effects(s, e)
        cf == apply_monthly_cash_flow(tx.state)
    IN  [state |-> cf.state, cash_flow_data |-> cf.summary, transaction_data |-> tx.summary]

\* lines 1318-1322 then 1401-1403: the monthly cash flow runs first, the
\* decision effect is applied to the state it leaves
process_decision(s, e) ==
    LET cf == apply_monthly_cash_flow(s)
        tx == apply_decision_effects(cf.state, e)
    IN  [state |-> tx.state, cash_flow_data |-> cf.summary, transaction_data |-> tx.summary]

(***************************************************************************)
(* Onboarding: utils.initialize_game_state and main.py lines 819-830       *)
(***************************************************************************)
RiskAttitudes == {"risk_averse", "balanced", "risk_seeking"}

\* OnboardingRequest: monthly_income > 0, monthly_expenses >= 0,
\* starting_savings >= 0, starting_debt >= 0
Profiles ==
    [age : {25},
     risk_attitude : RiskAttitudes,
     starting_savings : {0, 500},
     starting_debt : {0},
     own_car : BOOLEAN,
     own_pet : {FALSE}]

\* the seven category fields of a fresh GameState: either all unset (0) or a
\* breakdown of the stated monthly expenses
NoCategories ==
    [expense_housing |-> 0, expense_food |-> 0, expense_transport |-> 0,
     expense_utilities |-> 0, expense_subscriptions |-> 0, expense_insurance |-> 0,
     expense_other |-> 0]

TypicalCategories ==
    [expense_housing |-> 400, expense_food |-> 200, expense_transport |-> 50,
     expense_utilities |-> 60, expense_subscriptions |-> 20, expense_insurance |-> 30,
     expense_other |-> 60]

initialize_game_state(profile, monthly_income, monthly_expenses, categories) ==
    LET metrics == CASE profile.risk_attitude = "risk_averse" ->
                            [energy |-> 75, motivation |-> 65, social_life |-> 70]
                     [] profile.risk_attitude = "risk_seeking" ->
                            [energy |-> 65, motivation |-> 75, social_life |-> 75]
                     [] OTHER -> [energy |-> 70, motivation |-> 70, social_life |-> 70]
        asset_keys == (IF profile.own_car THEN {"car"} ELSE {})
                      \cup (IF profile.own_pet THEN {"pet"} ELSE {})
    IN  [current_step |-> 0,
         current_age |-> profile.age,
         years_passed |-> 0,
         months_passed |-> 0,
         month_phase |-> 1,
         money |-> profile.starting_savings,
         monthly_income |-> monthly_income,
         monthly_expenses |-> monthly_expenses,
         investments |-> 0,
         passive_income |-> 0,
         debts |-> profile.starting_debt,
         expense_housing |-> categories.expense_housing,
         expense_food |-> categories.expense_food,
         expense_transport |-> categories.expense_transport,
         expense_utilities |-> categories.expense_utilities,
         expense_subscriptions |-> categories.expense_subscriptions,
         expense_insurance |-> categories.expense_insurance,
         expense_other |-> categories.expense_other,
         fi_score |-> calculate_fi_score(0, monthly_expenses),
         energy |-> metrics.energy,
         motivation |-> metrics.motivation,
         social_life |-> metrics.social_life,
         financial_knowledge |-> 30,
         assets |-> [k \in asset_keys |-> IF k = "car" THEN "used_sedan" ELSE "cat"],
         risk_factors |-> [has_car |-> profile.own_car, has_pet |-> profile.own_pet,
                           has_rental |-> TRUE,
                           has_loan |-> profile.starting_debt > 0]]

InitialStates ==
    {initialize_game_state(p, 1000, x.total, x.categories) :
        p \in Profiles,
        x \in {[total |-> 820, categories |-> TypicalCategories],
               [total |-> 820, categories |-> NoCategories]}}

(***************************************************************************)
(* Inputs: the effects a decision can carry                                *)
(***************************************************************************)
Dict1(k, v) == [x \in {k} |-> v]

StaticEffects ==
    { DecisionEffect,
      [DecisionEffect EXCEPT !.money_change = -700, !.debt_change = 40,
                             !.investment_change = 100, !.energy_change = -200],
      [DecisionEffect EXCEPT !.money_change = 300, !.debt_change = -50,
                             !.motivation_change = 45],
      [DecisionEffect EXCEPT !.money_change = 100, !.investment_change = -100,
                             !.passive_income_change = -5],
      [DecisionEffect EXCEPT !.passive_income_change = 5, !.knowledge_change = 80],
      [DecisionEffect EXCEPT !.passive_income_change = 2000],
      [DecisionEffect EXCEPT !.expense_change = 60],
      \* the three options create_curveball_options builds for the insurance
      \* increase of 60 a month (lines 824-850)
      [DecisionEffect EXCEPT !.expense_change = 60, !.motivation_change = -10],
      [DecisionEffect EXCEPT !.expense_change = 30, !.energy_change = -10,
                             !.knowledge_change = 10],
      [DecisionEffect EXCEPT !.expense_change = 60, !.social_change = -10,
                             !.energy_change = -5],
      [DecisionEffect EXCEPT !.expense_change = 60, !.expense_housing_change = -200,
                             !.expense_food_change = -100],
      [DecisionEffect EXCEPT !.expense_housing_change = 50, !.expense_food_change = -100,
                             !.social_change = -80],
      [DecisionEffect EXCEPT !.expense_transport_change = -30,
                             !.expense_utilities_change = -20,
                             !.expense_subscriptions_change = -20,
                             !.expense_insurance_change = -20,
                             !.expense_other_change = -50],
      [DecisionEffect EXCEPT !.income_change = -400, !.energy_change = 200],
      [DecisionEffect EXCEPT !.asset_updates = Dict1("car", None),
                             !.risk_factor_updates = Dict1("has_car", FALSE)],
      [DecisionEffect EXCEPT !.asset_updates = Dict1("car", "new_suv"),
                             !.risk_factor_updates = [has_car |-> TRUE, has_pet |-> TRUE],
                             !.energy_change = -7] }

\* the boundary effect: one euro more than the cash at hand
Overdraft(s) == [DecisionEffect EXCEPT !.money_change = -(s.money + 1)]

Effects(s) == StaticEffects \cup {Overdraft(s)}

ClockEffects ==
    { DecisionEffect,
      [DecisionEffect EXCEPT !.money_change = -40, !.energy_change = -3] }

FlowEffects ==
    { DecisionEffect,
      [DecisionEffect EXCEPT !.income_change = -400, !.money_change = -700],
      [DecisionEffect EXCEPT !.expense_housing_change = 50, !.money_change = 300],
      [DecisionEffect EXCEPT !.passive_income_change = 5, !.expense_food_change = -100] }

(***************************************************************************)
(* Actions                                                                 *)
(***************************************************************************)
\* applied monthly cash flows explored by the engine specifications
MaxFlows == 2

NoTransaction == [description |-> <<>>]

NoCashFlow == [applied |-> FALSE, cash_change |-> 0, income_received |-> 0,
               expenses_paid |-> 0, debt_from_deficit |-> 0, cash_balance |-> 0]

NoCall == [fn |-> "none"]

Init ==
    /\ state \in InitialStates
    /\ effect = DecisionEffect
    /\ prev = state
    /\ op = "onboarding"
    /\ txn = NoTransaction
    /\ cash_flow_data = NoCashFlow
    /\ flow_log = 0
    /\ call = NoCall
    /\ result = NoCall

ApplyMonthlyCashFlow ==
    /\ flow_log < MaxFlows
    /\ LET r == apply_monthly_cash_flow(state)
       IN  /\ state' = r.state
           /\ cash_flow_data' = r.summary
           /\ flow_log' = IF r.summary.applied THEN flow_log + 1 ELSE flow_log
    /\ prev' = state
    /\ op' = "apply_monthly_cash_flow"
    /\ effect' = DecisionEffect
    /\ txn' = NoTransaction
    /\ UNCHANGED <<call, result>>

ApplyDecisionEffects(e) ==
    /\ LET r == apply_decision_effects(state, e)
       IN  /\ state' = r.state
           /\ txn' = r.summary
    /\ prev' = state
    /\ op' = "apply_decision_effects"
    /\ effect' = e
    /\ cash_flow_data' = NoCashFlow
    /\ UNCHANGED <<flow_log, call, result>>

ProcessDecision(e) ==
    /\ LET r == process_decision(state, e)
       IN  /\ state' = r.state
           /\ cash_flow_data' = r.cash_flow_data
           /\ txn' = r.transaction_data
           /\ flow_log' = IF r.cash_flow_data.applied THEN flow_log + 1 ELSE flow_log
    /\ prev' = state
    /\ op' = "process_decision"
    /\ effect' = e
    /\ UNCHANGED <<call, result>>

\* any interleaving of the two engine calls, any effect
Next ==
    \/ ApplyMonthlyCashFlow
    \/ /\ state.current_step < MaxSteps
       /\ \E e \in Effects(state) : ApplyDecisionEffects(e)

Spec == Init /\ [][Next]_vars

\* the clock over three simulated years
NextClock ==
    \/ ApplyMonthlyCashFlow
    \/ /\ state.current_step < MaxClockSteps
       /\ \E e \in ClockEffects : ApplyDecisionEffects(e)

SpecClock == Init /\ [][NextClock]_vars

\* completed steps of process_decision only
NextFlow ==
    /\ state.current_step < MaxFlowSteps
    /\ \E e \in FlowEffects : ProcessDecision(e)

SpecFlow == Init /\ [][NextFlow]_vars

(***************************************************************************)
(* expense_constraints.py                                                  *)
(***************************************************************************)
ExpenseCategories ==
    {"housing", "food", "transport", "utilities", "subscriptions", "insurance", "other"}

EXPENSE_MINIMUMS ==
    [housing |-> 300, food |-> 150, transport |-> 30, utilities |-> 50,
     subscriptions |-> 0, insurance |-> 20, other |-> 20]

\* dict.get(key, default)
DictGet(d, k, default) == IF k \in DOMAIN d THEN d[k] ELSE default

\* a city name is a sequence of characters; str.lower() maps each character
LowerChar(c) ==
    CASE c = "H" -> "h" [] c = "E" -> "e" [] c = "L" -> "l" [] c = "S" -> "s"
      [] c = "I" -> "i" [] c = "N" -> "n" [] c = "K" -> "k" [] c = "V" -> "v"
      [] c = "T" -> "t" [] c = "O" -> "o" [] c = "P" -> "p" [] c = "A" -> "a"
      [] OTHER -> c

Lower(str) == [i \in 1..Len(str) |-> LowerChar(str[i])]

ExpensiveCities ==
    { <<"h","e","l","s","i","n","k","i">>, <<"e","s","p","o","o">>,
      <<"v","a","n","t","a","a">> }

ExpensiveCityHousingMinimum == 400
\* a validation that compares the city name as typed
validate_expense_change_case_sensitive(category, current_value, change, city) ==
    LET base == DictGet(EXPENSE_MINIMUMS, category, 0)
        minimum == IF category = "housing" /\ city \in ExpensiveCities
                   THEN Max(base, ExpensiveCityHousingMinimum)
                   ELSE base
        new_value == current_value + change
    IN  IF new_value < minimum
        THEN [allowed_change |-> minimum - current_value,
              warning |-> <<"Cannot reduce below minimum living standard", category, minimum>>]
        ELSE [allowed_change |-> change, warning |-> <<>>]

\* the warning is the empty string (<<>>) or the message with its two
\* interpolated values
validate_expense_change(category, current_value, change, city) ==
    LET base == DictGet(EXPENSE_MINIMUMS, category, 0)
        minimum == IF category = "housing" /\ Lower(city) \in ExpensiveCities
                   THEN Max(base, ExpensiveCityHousingMinimum)
                   ELSE base
        new_value == current_value + change
    IN  IF new_value < minimum
        THEN [allowed_change |-> minimum - current_value,
              warning |-> <<"Cannot reduce below minimum living standard", category, minimum>>]
        ELSE [allowed_change |-> change, warning |-> <<>>]

(***************************************************************************)
(* game_engine.py: event selection                                         *)
(***************************************************************************)
PHASE_1_EVENTS ==
    <<"monthly_budget", "savings_decision", "investment_planning",
      "debt_payment_plan", "income_review">>

PHASE_2_3_EVENTS ==
    <<"social_event", "small_purchase", "minor_emergency", "daily_choice",
      "entertainment_option", "maintenance_issue", "side_hustle_opportunity",
      "unexpected_expense">>

\* risk_factors.get(key): a missing key is falsy
RiskFactor(s, k) == DictGet(s.risk_factors, k, FALSE)

\* the trigger probability, in hundredths
curveball_probability(s) ==
    (IF s.month_phase \in {2, 3} THEN 8 ELSE 15)
    + (IF RiskFactor(s, "has_car") THEN 3 ELSE 0)
    + (IF RiskFactor(s, "has_pet") THEN 3 ELSE 0)
    + (IF s.debts > s.monthly_income * 3 THEN 5 ELSE 0)
\* a trigger without the first-month check
should_trigger_curveball_any_month(s, u) == u < curveball_probability(s)

\* u is the draw of random.random(), in hundredths
should_trigger_curveball(s, u) ==
    IF s.months_passed < 1 THEN FALSE ELSE u < curveball_probability(s)

\* weights that open the side hustle at a motivation of exactly 60
event_weights_side_hustle_from_60(s) ==
    << IF s.energy > 50 THEN 2 ELSE 1,
       IF s.money > s.monthly_expenses THEN 2 ELSE 1,
       1,
       2,
       IF s.social_life < 60 THEN 2 ELSE 1,
       IF RiskFactor(s, "has_car") THEN 2 ELSE 1,
       IF s.motivation >= 60 THEN 1 ELSE 0,
       1 >>

\* the weights of lines 327-336, in the order of the dict
event_weights(s) ==
    << IF s.energy > 50 THEN 2 ELSE 1,
       IF s.money > s.monthly_expenses THEN 2 ELSE 1,
       1,
       2,
       IF s.social_life < 60 THEN 2 ELSE 1,
       IF RiskFactor(s, "has_car") THEN 2 ELSE 1,
       IF s.motivation > 60 THEN 1 ELSE 0,
       1 >>

RECURSIVE SumSeq(_)
SumSeq(q) == IF q = <<>> THEN 0 ELSE q[1] + SumSeq(Tail(q))

\* random.choices(population, weights)[0] for the draw x in [0, total):
\* the first index whose cumulative weight exceeds x
RECURSIVE weighted_choice(_, _, _)
weighted_choice(population, weights, x) ==
    IF Len(population) = 1 \/ x < weights[1]
    THEN population[1]
    ELSE weighted_choice(Tail(population), Tail(weights), x - weights[1])

\* a debt check that already fires at twice the income
heavy_debt_inclusive(s) == s.debts >= s.monthly_income * 2

\* line 314
heavy_debt(s) == s.debts > s.monthly_income * 2

\* an event machine that rolls for a curveball in every phase
get_event_type_curveball_any_phase(s, rnd) ==
    IF should_trigger_curveball(s, rnd.u)
    THEN "curveball"
    ELSE IF s.month_phase = 1
         THEN IF heavy_debt(s) THEN "debt_payment_plan" ELSE PHASE_1_EVENTS[rnd.choice]
         ELSE LET weights == event_weights(s)
                  available == SelectSeq(<<1, 2, 3, 4, 5, 6, 7, 8>>, LAMBDA i : weights[i] > 0)
                  available_events == [i \in 1..Len(available) |-> PHASE_2_3_EVENTS[available[i]]]
                  event_weights_ == [i \in 1..Len(available) |-> weights[available[i]]]
              IN  weighted_choice(available_events, event_weights_, rnd.x)

\* rnd.choice indexes PHASE_1_EVENTS, rnd.u is the curveball draw, rnd.x the
\* weighted draw
get_event_type(s, rnd) ==
    IF s.month_phase = 1
    THEN IF heavy_debt(s)
         THEN "debt_payment_plan"
         ELSE PHASE_1_EVENTS[rnd.choice]
    ELSE IF should_trigger_curveball(s, rnd.u)
         THEN "curveball"
         ELSE LET weights == event_weights(s)
                  available == SelectSeq(<<1, 2, 3, 4, 5, 6, 7, 8>>, LAMBDA i : weights[i] > 0)
                  available_events == [i \in 1..Len(available) |-> PHASE_2_3_EVENTS[available[i]]]
                  event_weights_ == [i \in 1..Len(available) |-> weights[available[i]]]
              IN  weighted_choice(available_events, event_weights_, rnd.x)

(***************************************************************************)
(* game_engine.py: generate_curveball_event                                *)
(*                                                                         *)
(* The scale is held in tenths; a narrative is its text and the amount it  *)
(* quotes.                                                                 *)
(***************************************************************************)
\* a generator that halves the late curveballs
curveball_scale_half(s) == IF s.month_phase \in {2, 3} THEN 5 ELSE 10

\* line 385
curveball_scale(s) == IF s.month_phase \in {2, 3} THEN 4 ELSE 10

Scaled(amount, scale) == (amount * scale) \div 10

\* lines 390-411
car_curveballs(s, scale) ==
    IF RiskFactor(s, "has_car")
    THEN IF scale < 10
         THEN << [narrative |-> <<"Your car needs a minor repair.", Scaled(250, scale)>>,
                  type |-> "car_repair", cost |-> Scaled(250, scale)] >>
         ELSE << [narrative |-> <<"Your car suddenly breaks down.", 1200>>,
                  type |-> "car_repair", cost |-> 1200],
                 [narrative |-> <<"Your car insurance premium is increasing.", 30>>,
                  type |-> "insurance_increase", monthly_cost |-> 60] >>
    ELSE <<>>

\* a generator that sends the vet bill to players without a pet
pet_curveballs_for_everyone(s, scale) ==
    << [narrative |-> <<"Your pet needs veterinary care.", Scaled(800, scale)>>,
        type |-> "vet_bill", cost |-> Scaled(800, scale)] >>

\* lines 413-420
pet_curveballs(s, scale) ==
    IF RiskFactor(s, "has_pet")
    THEN << [narrative |-> <<"Your pet needs veterinary care.", Scaled(800, scale)>>,
             type |-> "vet_bill", cost |-> Scaled(800, scale)] >>
    ELSE <<>>

\* lines 422-434
common_curveballs(scale) ==
    << [narrative |-> <<"Surprise! Side gig payment.", Scaled(400, scale)>>,
        type |-> "bonus", gain |-> Scaled(400, scale)],
       [narrative |-> <<"Your phone/laptop needs an urgent repair.", Scaled(300, scale)>>,
        type |-> "tech_repair", cost |-> Scaled(300, scale)] >>

\* lines 436-449
big_curveballs(scale) ==
    IF scale >= 10
    THEN << [narrative |-> <<"Surprise! Tax refund.", 600>>,
             type |-> "tax_refund", gain |-> 600],
            [narrative |-> <<"Your employer announced unexpected bonuses.", 1000>>,
             type |-> "bonus_large", gain |-> 1000] >>
    ELSE <<>>

curveballs_of(s) ==
    LET scale == curveball_scale(s)
    IN  car_curveballs(s, scale) \o pet_curveballs(s, scale)
        \o common_curveballs(scale) \o big_curveballs(scale)

IndexError == [error |-> "IndexError"]

\* random.choice(curveballs): choice is the index drawn; an empty list raises
generate_curveball_event(s, choice) ==
    LET curveballs == curveballs_of(s)
    IN  IF curveballs = <<>> THEN IndexError ELSE curveballs[choice]

(***************************************************************************)
(* game_engine.py: decision options                                        *)
(*                                                                         *)
(* An option is its fallback text, a fresh DecisionEffect and the fields   *)
(* its setup sets.  Amounts in a setup are whole cents, so that the        *)
(* fractions of the source (cost * 0.7, gain * 0.005, debts * 0.5) stay    *)
(* exact; life metrics are plain numbers.  A fallback text is kept without *)
(* its euro signs and without the amounts formatted into it.               *)
(***************************************************************************)
Option(fallback_text, setup) ==
    [fallback_text |-> fallback_text, effect |-> DecisionEffect, setup |-> setup]

create_budget_options(s) ==
    << Option("Create a detailed budget using the 50/30/20 rule",
              [knowledge_change |-> 15, motivation_change |-> 5]),
       Option("Use a budgeting app to automate tracking",
              [knowledge_change |-> 10, money_change |-> -500, motivation_change |-> 10]),
       Option("Keep rough mental track of spending", [knowledge_change |-> 2]) >>

create_emergency_fund_options(s) ==
    LET target == s.monthly_expenses * 3
    IN  << Option("Save aggressively to reach 3 months expenses",
                  [money_change |-> Min(s.monthly_income * 40, (target - s.money) * 100),
                   knowledge_change |-> 10, social_change |-> -5]),
           Option("Save gradually while maintaining lifestyle",
                  [money_change |-> s.monthly_income * 20, knowledge_change |-> 5]),
           Option("Focus on enjoying life now, save what's left",
                  [money_change |-> s.monthly_income * 5, social_change |-> 10,
                   energy_change |-> 5]) >>

create_investment_options(s) ==
    << Option("Invest 2,000 in diversified index funds",
              [money_change |-> -200000, investment_change |-> 200000,
               passive_income_change |-> 1000, knowledge_change |-> 15]),
       Option("Invest 1,000 in a high-growth tech fund",
              [money_change |-> -100000, investment_change |-> 100000,
               passive_income_change |-> 800, knowledge_change |-> 10]),
       Option("Keep savings liquid for now", [motivation_change |-> -5]) >>

create_career_options(s) ==
    << Option("Take overtime shifts for extra income",
              [income_change |-> 40000, energy_change |-> -15, social_change |-> -10]),
       Option("Pursue a certification course for career growth",
              [money_change |-> -80000, income_change |-> 20000,
               knowledge_change |-> 20, motivation_change |-> 10]),
       Option("Maintain current work-life balance",
              [energy_change |-> 5, social_change |-> 5]) >>

create_lifestyle_options(s) ==
    << Option("Join a gym and cooking class (60/month)",
              [expense_change |-> 6000, energy_change |-> 15, motivation_change |-> 10]),
       Option("Free outdoor activities and online resources",
              [energy_change |-> 10, knowledge_change |-> 5]),
       Option("Treat yourself to entertainment subscriptions (40/month)",
              [expense_change |-> 4000, motivation_change |-> 10, social_change |-> 5]) >>

create_debt_options(s) ==
    LET debt_payment == Min(s.debts * 50, s.money * 60)
    IN  << Option("Pay off debt aggressively",
                  [money_change |-> 0 - debt_payment, debt_change |-> 0 - debt_payment,
                   motivation_change |-> 15, knowledge_change |-> 10]),
           Option("Make minimum payments, invest the difference",
                  [money_change |-> 0 - (debt_payment * 2) \div 10,
                   debt_change |-> 0 - (debt_payment * 2) \div 10,
                   investment_change |-> (debt_payment * 3) \div 10,
                   passive_income_change |-> 200]),
           Option("Refinance debt at a lower interest rate",
                  [debt_change |-> 0 - s.debts * 5, knowledge_change |-> 15]) >>

create_social_options(s) ==
    << Option("Host a potluck dinner party (30)",
              [money_change |-> -3000, social_change |-> 15, energy_change |-> -5,
               motivation_change |-> 10]),
       Option("Attend expensive concert/event (120)",
              [money_change |-> -12000, social_change |-> 20, motivation_change |-> 15]),
       Option("Free community activities and meetups",
              [social_change |-> 10, energy_change |-> 5]) >>

create_education_options(s) ==
    << Option("Take online financial literacy course (200)",
              [money_change |-> -20000, knowledge_change |-> 25, motivation_change |-> 10]),
       Option("Read free personal finance books and blogs",
              [knowledge_change |-> 15, motivation_change |-> 5]),
       Option("Learn by doing, skip formal education", [knowledge_change |-> 5]) >>

\* the curveball's amount is in whole euros; line 768 reads its "type",
\* which every generated curveball has
create_curveball_options(curveball, s) ==
    IF "cost" \in DOMAIN curveball
    THEN LET cost == curveball.cost
         IN  << Option("Pay from savings",
                       [money_change |-> 0 - cost * 100, motivation_change |-> -10]),
                Option("Use credit/take loan",
                       [debt_change |-> cost * 100, motivation_change |-> -15,
                        energy_change |-> -5]),
                Option("Try to negotiate or find cheaper alternative",
                       [money_change |-> 0 - cost * 70, energy_change |-> -10,
                        knowledge_change |-> 10]) >>
    ELSE IF "gain" \in DOMAIN curveball
    THEN LET gain == curveball.gain
         IN  << Option("Save the entire",
                       [money_change |-> gain * 100, motivation_change |-> 5]),
                Option("Invest for long-term growth",
                       [investment_change |-> gain * 100,
                        passive_income_change |-> gain \div 2, knowledge_change |-> 5]),
                Option("Treat yourself and save half",
                       [money_change |-> gain * 50, social_change |-> 10,
                        motivation_change |-> 10]) >>
    ELSE IF "monthly_cost" \in DOMAIN curveball
    THEN LET monthly_cost == curveball.monthly_cost
         IN  << Option("Accept the increase",
                       [expense_change |-> monthly_cost * 100, motivation_change |-> -10]),
                Option("Look for alternatives or negotiate",
                       [expense_change |-> monthly_cost * 50, energy_change |-> -10,
                        knowledge_change |-> 10]),
                Option("Cut other expenses to compensate",
                       [expense_change |-> monthly_cost * 100, social_change |-> -10,
                        energy_change |-> -5]) >>
    ELSE <<>>

\* lines 469-479: the names the generators are registered under
option_generators ==
    [budget_decision |-> "create_budget_options",
     emergency_fund |-> "create_emergency_fund_options",
     investment_opportunity |-> "create_investment_options",
     career_opportunity |-> "create_career_options",
     lifestyle_choice |-> "create_lifestyle_options",
     debt_management |-> "create_debt_options",
     social_event |-> "create_social_options",
     education_opportunity |-> "create_education_options"]

\* a lookup without the budget fallback
generator_for_registered_only(event_type) == DictGet(option_generators, event_type, None)

\* line 481: option_generators.get(event_type, create_budget_options)
generator_for(event_type) ==
    DictGet(option_generators, event_type, "create_budget_options")

\* "no curveball" is the empty dict here; like None it is falsy
create_decision_options(event_type, s, curveball) ==
    IF event_type = "curveball" /\ DOMAIN curveball # {}
    THEN create_curveball_options(curveball, s)
    ELSE LET generator == generator_for(event_type)
         IN  CASE generator = "create_budget_options" -> create_budget_options(s)
               [] generator = "create_emergency_fund_options" ->
                    create_emergency_fund_options(s)
               [] generator = "create_investment_options" -> create_investment_options(s)
               [] generator = "create_career_options" -> create_career_options(s)
               [] generator = "create_lifestyle_options" -> create_lifestyle_options(s)
               [] generator = "create_debt_options" -> create_debt_options(s)
               [] generator = "create_social_options" -> create_social_options(s)
               [] generator = "create_education_options" -> create_education_options(s)
               [] OTHER -> <<>>

\* lines 855-860: the setup writes its fields into the option's effect
setup_option_effect(option) ==
    [k \in DOMAIN option.effect |->
        IF k \in DOMAIN option.setup THEN option.setup[k] ELSE option.effect[k]]

(***************************************************************************)
(* Inputs of the pure functions                                            *)
(***************************************************************************)
Cities ==
    { <<"H","e","l","s","i","n","k","i">>, <<"H","E","L","S","I","N","K","I">>,
      <<"e","s","p","o","o">>, <<"V","a","n","t","a","a">>,
      <<"T","a","m","p","e","r","e">>, <<"h","e","l","s","i","n","k","i"," ">> }

CurrentValues == {0, 140, 150, 300, 350, 400, 450}

Changes == {-200, -100, -20, 0, 10, 60}

DefaultProfile ==
    [age |-> 25, risk_attitude |-> "balanced", starting_savings |-> 500,
     starting_debt |-> 0, own_car |-> FALSE, own_pet |-> FALSE]

DefaultState == initialize_game_state(DefaultProfile, 1000, 820, TypicalCategories)

\* the states the event machine is asked about
EventStates ==
    { [DefaultState EXCEPT !.month_phase = ph,
                           !.months_passed = m,
                           !.current_step = 3 * m + (ph - 1),
                           !.years_passed = m,
                           !.debts = d,
                           !.energy = x.energy,
                           !.motivation = x.motivation,
                           !.social_life = x.social_life,
                           !.money = x.money,
                           !.risk_factors = [has_car |-> car, has_pet |-> pet,
                                             has_rental |-> TRUE, has_loan |-> d > 0]] :
        ph \in 1..3, m \in {0, 1, 5}, d \in {0, 2000, 2001, 3001},
        car \in BOOLEAN, pet \in BOOLEAN,
        x \in {[energy |-> 70, motivation |-> 70, social_life |-> 70, money |-> 900],
               [energy |-> 50, motivation |-> 60, social_life |-> 59, money |-> 820]} }

\* draws of random.random(), in hundredths
RandomDraws == {0, 7, 8, 10, 11, 14, 18, 19, 26, 99}

InitPure ==
    /\ state = DefaultState
    /\ effect = DecisionEffect
    /\ prev = state
    /\ op = "onboarding"
    /\ txn = NoTransaction
    /\ cash_flow_data = NoCashFlow
    /\ flow_log = 0
    /\ call = NoCall
    /\ result = NoCall

engine_vars == <<state, effect, prev, op, txn, cash_flow_data, flow_log>>

\* each pure function is called once, on inputs drawn from the sets above
ValidateExpenseChange ==
    /\ call = NoCall
    /\ \E category \in ExpenseCategories \cup {"pets"}, current_value \in CurrentValues,
       change \in Changes, city \in Cities :
        /\ call' = [fn |-> "validate_expense_change", category |-> category,
                    current_value |-> current_value, change |-> change, city |-> city]
        /\ result' = validate_expense_change(category, current_value, change, city)
    /\ UNCHANGED engine_vars

SpecConstraints == InitPure /\ [][ValidateExpenseChange]_vars

GetEventType ==
    /\ call = NoCall
    /\ \E s \in EventStates, choice \in 1..Len(PHASE_1_EVENTS), u \in RandomDraws :
        \E x \in 0..(SumSeq(event_weights(s)) - 1) :
            /\ call' = [fn |-> "get_event_type", state |-> s]
            /\ result' = [event_type |-> get_event_type(s, [choice |-> choice, u |-> u, x |-> x])]
    /\ UNCHANGED engine_vars

ShouldTriggerCurveball ==
    /\ call = NoCall
    /\ \E s \in EventStates, u \in RandomDraws :
        /\ call' = [fn |-> "should_trigger_curveball", state |-> s]
        /\ result' = [triggered |-> should_trigger_curveball(s, u)]
    /\ UNCHANGED engine_vars

\* every value get_event_type can return in a state, over all its draws
GetEventTypeOutcomes ==
    /\ call = NoCall
    /\ \E s \in EventStates :
        /\ call' = [fn |-> "get_event_type, every draw", state |-> s]
        /\ result' =
            [possible |->
                { get_event_type(s, [choice |-> r[1], u |-> r[2], x |-> r[3]]) :
                    r \in (1..Len(PHASE_1_EVENTS)) \X RandomDraws
                          \X (0..(SumSeq(event_weights(s)) - 1)) }]
    /\ UNCHANGED engine_vars

GenerateCurveballEvent ==
    /\ call = NoCall
    /\ \E s \in EventStates :
        \E choice \in 1..Max(1, Len(curveballs_of(s))) :
            /\ call' = [fn |-> "generate_curveball_event", state |-> s]
            /\ result' = [curveball |-> generate_curveball_event(s, choice),
                          candidates |-> Len(curveballs_of(s))]
    /\ UNCHANGED engine_vars

\* main.py lines 1204-1208: the next event, and its curveball when it is one
GenerateNextQuestion ==
    /\ call = NoCall
    /\ \E s \in EventStates, choice \in 1..Len(PHASE_1_EVENTS), u \in RandomDraws :
        \E x \in 0..(SumSeq(event_weights(s)) - 1),
           pick \in 1..Max(1, Len(curveballs_of(s))) :
            LET next_event_type == get_event_type(s, [choice |-> choice, u |-> u, x |-> x])
            IN  /\ call' = [fn |-> "generate_and_cache_next_question", state |-> s]
                /\ result' = [next_event_type |-> next_event_type,
                              next_curveball |->
                                  IF next_event_type = "curveball"
                                  THEN generate_curveball_event(s, pick)
                                  ELSE None]
    /\ UNCHANGED engine_vars

\* create_decision_options for the event get_event_type selects, with the
\* curveball generated for it or, as test_game_flow.py line 93 calls it,
\* with no curveball
CreateDecisionOptions ==
    /\ call = NoCall
    /\ \E s \in EventStates, choice \in 1..Len(PHASE_1_EVENTS), u \in RandomDraws :
        \E x \in 0..(SumSeq(event_weights(s)) - 1),
           pick \in 1..Len(curveballs_of(s)), given \in BOOLEAN :
            LET event_type == get_event_type(s, [choice |-> choice, u |-> u, x |-> x])
                curveball == IF event_type = "curveball" /\ given
                             THEN generate_curveball_event(s, pick)
                             ELSE EmptyDict
            IN  /\ call' = [fn |-> "create_decision_options", event_type |-> event_type,
                            state |-> s, curveball |-> curveball]
                /\ result' = [options |-> create_decision_options(event_type, s, curveball)]
    /\ UNCHANGED engine_vars

\* create_curveball_options for any curveball of the player's pool
CreateCurveballOptions ==
    /\ call = NoCall
    /\ \E s \in EventStates : \E pick \in 1..Len(curveballs_of(s)) :
        LET curveball == generate_curveball_event(s, pick)
        IN  /\ call' = [fn |-> "create_curveball_options", state |-> s,
                        curveball |-> curveball]
            /\ result' = [options |-> create_curveball_options(curveball, s)]
    /\ UNCHANGED engine_vars

NextEvents ==
    \/ GetEventType
    \/ ShouldTriggerCurveball
    \/ GetEventTypeOutcomes
    \/ GenerateCurveballEvent
    \/ GenerateNextQuestion
    \/ CreateDecisionOptions
    \/ CreateCurveballOptions

SpecEvents == InitPure /\ [][NextEvents]_vars

(***************************************************************************)
(* mcp_financial_server.py: the deterministic financial calculator         *)
(*                                                                         *)
(* Amounts are whole cents.  A multiplier is held in thousandths, an        *)
(* annual yield in percent, an expense share in three-hundredths of the    *)
(* total (0.08 / 3 is 8 of them).  round(x, 2) is rounding to the nearest  *)
(* cent; on an exact tie the float decides, so either neighbour can come   *)
(* out.                                                                    *)
(***************************************************************************)
AssetTypes ==
    {"index_fund", "tech_stocks", "bonds", "savings_account", "crypto", "real_estate"}

ResultQualities == {"major_gain", "gain", "neutral", "minor_loss", "loss", "major_loss"}

ASSET_YIELDS ==
    [index_fund |-> 5, tech_stocks |-> 8, bonds |-> 3, savings_account |-> 1,
     crypto |-> 10, real_estate |-> 6]

OUTCOME_MULTIPLIERS ==
    [major_gain |-> <<1200, 1350>>, gain |-> <<1050, 1150>>,
     neutral |-> <<980, 1020>>, minor_loss |-> <<900, 950>>,
     loss |-> <<700, 850>>, major_loss |-> <<300, 600>>]

\* round(num / den, 2) in cents, den > 0
Round2(num, den, tie_up) ==
    LET q == num \div den
        r == num - q * den
    IN  IF 2 * r < den THEN q
        ELSE IF 2 * r > den THEN q + 1
        ELSE IF tie_up THEN q + 1 ELSE q

\* random.uniform(a, b) = a + (b - a) * random(), the draw u in hundredths
uniform(a, b, u) == a + ((b - a) * u) \div 100

\* a calculator that takes the annual yield for the monthly one
passive_income_change_annual(investment_num, investment_den, annual_yield, tie_up) ==
    Round2(investment_num * annual_yield, investment_den * 100, tie_up)

\* lines 109-112 and 117: investment_change * (annual_yield / 12), rounded
passive_income_change_of(investment_num, investment_den, annual_yield, tie_up) ==
    Round2(investment_num * annual_yield, investment_den * 1200, tie_up)

\* lines 90-119
investment_outcome_deltas(principal, asset, quality, u, tie_up) ==
    LET multiplier_range == OUTCOME_MULTIPLIERS[quality]
        multiplier == uniform(multiplier_range[1], multiplier_range[2], u)
        final_num == abs(principal) * multiplier
        net_num == final_num - abs(principal) * 1000
        investment_num == IF principal > 0 THEN final_num ELSE (0 - abs(principal)) * 1000
        money_num == IF principal > 0 THEN (0 - abs(principal)) * 1000 ELSE final_num
    IN  [money_change |-> Round2(money_num, 1000, tie_up),
         investment_change |-> Round2(investment_num, 1000, tie_up),
         passive_income_change |->
             passive_income_change_of(investment_num, 1000, ASSET_YIELDS[asset], tie_up),
         net_gain_loss |-> Round2(net_num, 1000, tie_up)]

ZeroOutcome ==
    [money_change |-> 0, investment_change |-> 0, passive_income_change |-> 0,
     net_gain_loss |-> 0]

ValueError == [error |-> "ValueError"]

\* a calculator that answers a zero principal before it looks at the enums
calculate_investment_outcome_zero_first(principal, asset_type, result_quality, u, tie_up) ==
    IF principal = 0
    THEN ZeroOutcome
    ELSE IF asset_type \notin AssetTypes \/ result_quality \notin ResultQualities
         THEN ValueError
         ELSE investment_outcome_deltas(principal, asset_type, result_quality, u, tie_up)

calculate_investment_outcome(principal, asset_type, result_quality, u, tie_up) ==
    IF asset_type \notin AssetTypes \/ result_quality \notin ResultQualities
    THEN ValueError
    ELSE IF principal = 0
         THEN ZeroOutcome
         ELSE investment_outcome_deltas(principal, asset_type, result_quality, u, tie_up)

\* lines 148-183: the shares, in three-hundredths
expense_percentages(has_car, lifestyle_level) ==
    LET base == [expense_housing |-> 35 * 3, expense_food |-> 20 * 3,
                 expense_transport |-> 10 * 3, expense_utilities |-> 8 * 3,
                 expense_subscriptions |-> 5 * 3, expense_insurance |-> 7 * 3,
                 expense_other |-> 15 * 3]
        styled ==
            CASE lifestyle_level = 1 ->
                    [base EXCEPT !.expense_housing = 40 * 3, !.expense_food = 18 * 3,
                                 !.expense_subscriptions = 3 * 3, !.expense_other = 10 * 3]
              [] lifestyle_level = 3 ->
                    [base EXCEPT !.expense_housing = 32 * 3, !.expense_food = 22 * 3,
                                 !.expense_subscriptions = 8 * 3, !.expense_other = 18 * 3]
              [] lifestyle_level = 4 ->
                    [base EXCEPT !.expense_housing = 30 * 3, !.expense_food = 25 * 3,
                                 !.expense_subscriptions = 10 * 3, !.expense_other = 20 * 3]
              [] OTHER -> base
    IN  IF has_car
        THEN [styled EXCEPT !.expense_transport = 15 * 3,
                            !.expense_insurance = 10 * 3,
                            !.expense_housing = styled.expense_housing - 8,
                            !.expense_food = styled.expense_food - 8,
                            !.expense_other = styled.expense_other - 8]
        ELSE styled

\* a breakdown that rounds "other" from its own share
expense_other_from_share(total_expenses, percentages, six, tie_up) ==
    Round2(total_expenses * percentages.expense_other, 300, tie_up)

\* lines 193-196: "other" is what the six rounded categories leave
expense_other_remainder(total_expenses, percentages, six, tie_up) ==
    total_expenses - (six.expense_housing + six.expense_food + six.expense_transport
                      + six.expense_utilities + six.expense_subscriptions
                      + six.expense_insurance)

calculate_expense_breakdown(total_expenses, city, has_car, lifestyle_level, tie_up) ==
    LET percentages == expense_percentages(has_car, lifestyle_level)
        amount(key) == Round2(total_expenses * percentages[key], 300, tie_up)
        six == [expense_housing |-> amount("expense_housing"),
                expense_food |-> amount("expense_food"),
                expense_transport |-> amount("expense_transport"),
                expense_utilities |-> amount("expense_utilities"),
                expense_subscriptions |-> amount("expense_subscriptions"),
                expense_insurance |-> amount("expense_insurance")]
    IN  [expense_housing |-> six.expense_housing,
         expense_food |-> six.expense_food,
         expense_transport |-> six.expense_transport,
         expense_utilities |-> six.expense_utilities,
         expense_subscriptions |-> six.expense_subscriptions,
         expense_insurance |-> six.expense_insurance,
         expense_other |-> expense_other_remainder(total_expenses, percentages, six, tie_up)]

\* a validation that also refuses a transaction that spends the last cent
validate_balance_sheet_strict(money_before, investments_before, money_change, investment_change) ==
    IF money_before + money_change <= 0
    THEN [valid |-> FALSE, message |-> <<"Insufficient funds", money_before, money_change>>]
    ELSE [valid |-> TRUE, message |-> <<"Valid transaction", money_change + investment_change>>]

\* the tolerance is 0.01, one cent
validate_balance_sheet(money_before, investments_before, money_change, investment_change) ==
    IF money_before + money_change < 0
    THEN [valid |-> FALSE, message |-> <<"Insufficient funds", money_before, money_change>>]
    ELSE LET total_before == money_before + investments_before
             total_after == (money_before + money_change)
                            + (investments_before + investment_change)
             wealth_change == total_after - total_before
             expected_wealth_change == money_change + investment_change
         IN  IF abs(wealth_change - expected_wealth_change) > 1
             THEN [valid |-> FALSE,
                   message |-> <<"Balance sheet error", wealth_change, money_change,
                                 investment_change>>]
             ELSE [valid |-> TRUE, message |-> <<"Valid transaction", wealth_change>>]

(***************************************************************************)
(* Inputs and calls of the calculator                                      *)
(***************************************************************************)
Principals == {-100000, -101, 0, 1, 101, 33333, 100000}

UniformDraws == {0, 40, 100}

TotalExpenses == {0, 1, 6, 33, 99999, 123457, 150000}

LifestyleLevels == 1..4

CalculateInvestmentOutcome ==
    /\ call = NoCall
    /\ \E principal \in Principals, asset_type \in AssetTypes \cup {"gold"},
          result_quality \in ResultQualities \cup {"windfall"},
          u \in UniformDraws, tie_up \in BOOLEAN :
        /\ call' = [fn |-> "calculate_investment_outcome", principal |-> principal,
                    asset_type |-> asset_type, result_quality |-> result_quality,
                    u |-> u]
        /\ result' = calculate_investment_outcome(principal, asset_type, result_quality,
                                                  u, tie_up)
    /\ UNCHANGED engine_vars

CalculateExpenseBreakdown ==
    /\ call = NoCall
    /\ \E total_expenses \in TotalExpenses, has_car \in BOOLEAN,
          lifestyle_level \in LifestyleLevels, tie_up \in BOOLEAN :
        /\ call' = [fn |-> "calculate_expense_breakdown",
                    total_expenses |-> total_expenses, has_car |-> has_car,
                    lifestyle_level |-> lifestyle_level]
        /\ result' = calculate_expense_breakdown(total_expenses,
                                                 <<"H","e","l","s","i","n","k","i">>,
                                                 has_car, lifestyle_level, tie_up)
    /\ UNCHANGED engine_vars

ValidateBalanceSheet ==
    /\ call = NoCall
    /\ \E money_before \in {0, 10000, 200000}, investments_before \in {0, 500000},
          money_change \in {-100000, -10001, -10000, 0, 5000},
          investment_change \in {-5000, 0, 110000} :
        /\ call' = [fn |-> "validate_balance_sheet", money_before |-> money_before,
                    investments_before |-> investments_before,
                    money_change |-> money_change,
                    investment_change |-> investment_change]
        /\ result' = validate_balance_sheet(money_before, investments_before,
                                            money_change, investment_change)
    /\ UNCHANGED engine_vars

NextCalculator ==
    \/ CalculateInvestmentOutcome
    \/ CalculateExpenseBreakdown
    \/ ValidateBalanceSheet

SpecCalculator == InitPure /\ [][NextCalculator]_vars

(***************************************************************************)
(* expense_constraints.py: health impact of low spending                   *)
(***************************************************************************)
EXPENSE_HEALTH_THRESHOLDS ==
    [housing |-> [comfortable |-> 500, adequate |-> 350, minimum |-> 300],
     food |-> [comfortable |-> 250, adequate |-> 200, poor |-> 150],
     transport |-> [comfortable |-> 80, adequate |-> 50, minimum |-> 30]]

\* the dict holds only the metrics the category touches
calculate_health_impact(category, current_value, change) ==
    LET new_value == current_value + change
    IN  IF category \notin DOMAIN EXPENSE_HEALTH_THRESHOLDS
        THEN EmptyDict
        ELSE LET thresholds == EXPENSE_HEALTH_THRESHOLDS[category]
             IN  CASE category = "food" ->
                        IF new_value <= thresholds.poor
                        THEN [energy |-> -3, motivation |-> -1]
                        ELSE IF new_value <= thresholds.adequate
                        THEN [energy |-> -1]
                        ELSE IF new_value >= thresholds.comfortable
                                /\ current_value < thresholds.comfortable
                        THEN [energy |-> 1]
                        ELSE EmptyDict
                   [] category = "housing" ->
                        IF new_value <= thresholds.minimum
                        THEN [energy |-> -2, social |-> -1]
                        ELSE IF new_value <= thresholds.adequate
                        THEN [energy |-> -1]
                        ELSE EmptyDict
                   [] category = "transport" ->
                        IF new_value <= thresholds.minimum
                        THEN [social |-> -1]
                        ELSE EmptyDict

calculate_monthly_health_impact(expenses) ==
    LET food == DictGet(expenses, "food", 0)
        housing == DictGet(expenses, "housing", 0)
        transport == DictGet(expenses, "transport", 0)
        poor_food == food <= EXPENSE_HEALTH_THRESHOLDS.food.poor
        low_food == ~poor_food /\ food <= EXPENSE_HEALTH_THRESHOLDS.food.adequate
        poor_housing == housing <= EXPENSE_HEALTH_THRESHOLDS.housing.minimum
        no_transport == transport <= EXPENSE_HEALTH_THRESHOLDS.transport.minimum
    IN  [energy |-> 0 - (IF poor_food THEN 2 ELSE IF low_food THEN 1 ELSE 0)
                      - (IF poor_housing THEN 1 ELSE 0),
         motivation |-> 0 - (IF poor_food THEN 1 ELSE 0),
         social |-> 0 - (IF poor_housing THEN 1 ELSE 0)
                      - (IF no_transport THEN 1 ELSE 0),
         knowledge |-> 0]

\* expense levels on both sides of every threshold
FoodLevels == {100, 150, 151, 200, 201, 250, 260}

HousingLevels == {300, 301, 350, 351, 500}

TransportLevels == {0, 30, 31, 80}

CalculateHealthImpact ==
    /\ call = NoCall
    /\ \E category \in ExpenseCategories,
          current_value \in FoodLevels \cup HousingLevels \cup TransportLevels,
          change \in {-50, 0, 50} :
        /\ call' = [fn |-> "calculate_health_impact", category |-> category,
                    current_value |-> current_value, change |-> change]
        /\ result' = calculate_health_impact(category, current_value, change)
    /\ UNCHANGED engine_vars

CalculateMonthlyHealthImpact ==
    /\ call = NoCall
    /\ \E expenses \in [food : FoodLevels, housing : HousingLevels,
                        transport : TransportLevels] \cup {EmptyDict} :
        /\ call' = [fn |-> "calculate_monthly_health_impact", expenses |-> expenses]
        /\ result' = calculate_monthly_health_impact(expenses)
    /\ UNCHANGED engine_vars

NextHealth == CalculateHealthImpact \/ CalculateMonthlyHealthImpact

SpecHealth == InitPure /\ [][NextHealth]_vars

(***************************************************************************)
(* financial_calculator.py: from the LLM's outcome to effects              *)
(*                                                                         *)
(* Amounts are whole cents, as in the calculator.  The MCP client and      *)
(* server pass the calculator's answers through; an error text from the    *)
(* server fails in the client's eval.                                      *)
(***************************************************************************)
EffectKeys ==
    {"money_change", "investment_change", "passive_income_change", "debt_change",
     "income_change", "expense_housing_change", "expense_food_change",
     "expense_transport_change", "expense_utilities_change",
     "expense_subscriptions_change", "expense_insurance_change",
     "expense_other_change", "energy_change", "motivation_change", "social_change",
     "knowledge_change"}

LifeMetricKeys ==
    {"energy_change", "motivation_change", "social_change", "knowledge_change"}

SyntaxError == [error |-> "SyntaxError"]

\* lines 76-99: the investment branch; u and tie_up are the calculator's draws
parse_investment(outcome, effects, u, tie_up) ==
    LET investment_details == DictGet(outcome, "investment_details", EmptyDict)
        principal == DictGet(investment_details, "principal", 0)
        asset_type == DictGet(investment_details, "asset_type", "")
        result_quality == DictGet(investment_details, "result_quality", "")
    IN  IF principal # 0 /\ asset_type # "" /\ result_quality # ""
        THEN LET mcp_result == calculate_investment_outcome(principal, asset_type,
                                                             result_quality, u, tie_up)
             IN  IF "error" \in DOMAIN mcp_result
                 THEN SyntaxError
                 ELSE [effects EXCEPT
                          !["money_change"] = mcp_result.money_change,
                          !["investment_change"] = mcp_result.investment_change,
                          !["passive_income_change"] = mcp_result.passive_income_change]
        ELSE effects

\* lines 102-106
parse_expense(outcome, effects) ==
    LET expense_changes == DictGet(outcome, "expense_changes", EmptyDict)
    IN  [k \in EffectKeys |->
            IF k \in DOMAIN expense_changes THEN expense_changes[k] ELSE effects[k]]

\* lines 108-120: income, debt and the life metrics
parse_common(outcome, effects) ==
    LET life_metrics == DictGet(outcome, "life_metrics", EmptyDict)
    IN  [k \in EffectKeys |->
            IF k \in {"income_change", "debt_change"} /\ k \in DOMAIN outcome
            THEN outcome[k]
            ELSE IF k \in LifeMetricKeys /\ k \in DOMAIN life_metrics
                 THEN life_metrics[k]
                 ELSE effects[k]]

parse_llm_outcome(llm_response, u, tie_up) ==
    IF "effects" \in DOMAIN llm_response /\ "outcome" \notin DOMAIN llm_response
    THEN [k \in EffectKeys |-> DictGet(llm_response.effects, k, 0)]
    ELSE LET outcome == DictGet(llm_response, "outcome", EmptyDict)
             action_type == DictGet(outcome, "action_type", "")
             effects == [k \in EffectKeys |-> 0]
             acted == IF action_type = "investment"
                      THEN parse_investment(outcome, effects, u, tie_up)
                      ELSE IF action_type = "expense"
                           THEN parse_expense(outcome, effects)
                           ELSE effects
         IN  IF "error" \in DOMAIN acted THEN acted ELSE parse_common(outcome, acted)

validate_and_log_transaction(game_state_before, effects) ==
    LET money_before == DictGet(game_state_before, "money", 0)
        investments_before == DictGet(game_state_before, "investments", 0)
        money_change == DictGet(effects, "money_change", 0)
        investment_change == DictGet(effects, "investment_change", 0)
    IN  IF money_change = 0 /\ investment_change = 0
        THEN TRUE
        ELSE validate_balance_sheet(money_before, investments_before, money_change,
                                    investment_change).valid

\* a middleware that blanks what fails the validation
effects_after_validation_gated(effects, is_valid) ==
    IF is_valid THEN effects ELSE [k \in EffectKeys |-> 0]

\* lines 191-196: the effects are returned whatever the validation said
effects_after_validation(effects, is_valid) == effects

\* is_valid is the local the function logs
calculate_effects_from_llm(llm_response, game_state_before, u, tie_up) ==
    LET effects == parse_llm_outcome(llm_response, u, tie_up)
    IN  IF "error" \in DOMAIN effects
        THEN effects
        ELSE LET is_valid == validate_and_log_transaction(game_state_before, effects)
             IN  [returned |-> effects_after_validation(effects, is_valid),
                  is_valid |-> is_valid]

LlmResponses ==
    { [narrative |-> "legacy", effects |-> e] :
        e \in { [money_change |-> -60000, energy_change |-> -5],
                [money_change |-> 5000, investment_change |-> -5000],
                EmptyDict } }
    \cup
    { [narrative |-> "investment",
       outcome |-> [action_type |-> "investment",
                    investment_details |-> [principal |-> p, asset_type |-> a,
                                            result_quality |-> q],
                    life_metrics |-> [motivation_change |-> 10, knowledge_change |-> 15]]] :
        p \in {-50000, 0, 50000, 100000}, a \in {"index_fund", "crypto", "gold"},
        q \in {"gain", "major_loss"} }
    \cup
    { [narrative |-> "expense",
       outcome |-> [action_type |-> "expense",
                    expense_changes |-> [expense_subscriptions_change |-> -6500],
                    debt_change |-> d,
                    life_metrics |-> [energy_change |-> -10]]] : d \in {0, 100000} }
    \cup { [narrative |-> "nothing"] }

GameStatesBefore ==
    [money : {0, 50000, 500000}, investments : {0, 1000000}] \cup {EmptyDict}

CalculateEffectsFromLlm ==
    /\ call = NoCall
    /\ \E llm_response \in LlmResponses, game_state_before \in GameStatesBefore,
          u \in UniformDraws, tie_up \in BOOLEAN :
        /\ call' = [fn |-> "calculate_effects_from_llm", llm_response |-> llm_response,
                    game_state_before |-> game_state_before, u |-> u,
                    tie_up |-> tie_up]
        /\ result' = calculate_effects_from_llm(llm_response, game_state_before, u, tie_up)
    /\ UNCHANGED engine_vars

SpecMiddleware == InitPure /\ [][CalculateEffectsFromLlm]_vars

(***************************************************************************)
(* Properties                                                              *)
(***************************************************************************)
IsEffectsCall == op = "apply_decision_effects"

\* C1: after every apply_decision_effects, whatever aggregate expense_change
\* and category deltas the effect carried, monthly_expenses equals the sum
\* of the seven category fields.
C1_ExpensesEqualCategorySum ==
    IsEffectsCall =>
        state.monthly_expenses =
            state.expense_housing + state.expense_food + state.expense_transport
            + state.expense_utilities + state.expense_subscriptions
            + state.expense_insurance + state.expense_other

\* an effect with both an aggregate and category deltas was applied, and the
\* aggregate alone would have given another total
C1_Witness ==
    /\ IsEffectsCall
    /\ effect.expense_change # 0
    /\ effect.expense_housing_change # 0
    /\ state.monthly_expenses # prev.monthly_expenses + effect.expense_change

\* C2: money is never negative in a stored state, after any sequence of
\* apply_monthly_cash_flow and apply_decision_effects calls.
C2_MoneyNeverNegative == state.money >= 0

\* a monthly cash flow ran a deficit and the deficit went to debts
C2_Witness ==
    /\ op = "apply_monthly_cash_flow"
    /\ cash_flow_data.applied
    /\ prev.money + prev.monthly_income + prev.passive_income < prev.monthly_expenses
    /\ state.money = 0
    /\ state.debts > prev.debts

\* C3: in every reachable state 0 <= fi_score <= 100.
C3_FiScoreInRange ==
    /\ RatLeq(Rat(0), state.fi_score)
    /\ RatLeq(state.fi_score, Rat(100))

\* C4: apply_decision_effects with money + money_change < 0 leaves money = 0,
\* adds debt_change plus the deficit to debts and reports debt_change plus
\* the deficit; otherwise debts changes by debt_change only.
C4_DebtConversion ==
    IsEffectsCall =>
        LET balance == prev.money + effect.money_change
        IN  IF balance < 0
            THEN /\ state.money = 0
                 /\ state.debts = prev.debts + effect.debt_change + (0 - balance)
                 /\ txn.debt_change = effect.debt_change + (0 - balance)
            ELSE /\ state.money = balance
                 /\ state.debts = prev.debts + effect.debt_change
                 /\ txn.debt_change = effect.debt_change

\* the boundary effect money_change = -(money + 1) was applied
C4_Witness ==
    /\ IsEffectsCall
    /\ prev.money > 0
    /\ effect.money_change = 0 - (prev.money + 1)
    /\ state.money = 0
    /\ state.debts = prev.debts + 1
    /\ txn.debt_change = 1

\* C5: each apply_decision_effects adds 1 to current_step, moves month_phase
\* 1 -> 2 -> 3 -> 1, adds 1 to months_passed exactly on the wrap and adds 1
\* to current_age exactly when the wrap makes months_passed a multiple of 12.
C5_ClockAdvance ==
    IsEffectsCall =>
        LET wraps == prev.month_phase = 3
            birthday == wraps /\ (prev.months_passed + 1) % 12 = 0
        IN  /\ state.current_step = prev.current_step + 1
            /\ state.month_phase = (IF wraps THEN 1 ELSE prev.month_phase + 1)
            /\ state.months_passed = prev.months_passed + (IF wraps THEN 1 ELSE 0)
            /\ state.current_age = prev.current_age + (IF birthday THEN 1 ELSE 0)

\* the twelfth month ended and the player aged
C5_Witness ==
    /\ IsEffectsCall
    /\ prev.month_phase = 3
    /\ state.month_phase = 1
    /\ state.months_passed = 12
    /\ state.current_age = prev.current_age + 1

\* C6: over completed process_decision steps from phase 1 the monthly cash
\* flow fires exactly on the steps that begin in phase 1 (once per month,
\* first step included) and before the step's decision effect: it pays the
\* income and expenses of the state before the effect, and the effect's
\* money_change lands on the balance the cash flow left.
C6_CashFlowOncePerMonth ==
    /\ flow_log = state.months_passed + (IF state.month_phase > 1 THEN 1 ELSE 0)
    /\ op = "process_decision" =>
        /\ cash_flow_data.applied = (prev.month_phase = 1)
        /\ cash_flow_data.applied =>
            /\ cash_flow_data.income_received = prev.monthly_income + prev.passive_income
            /\ cash_flow_data.expenses_paid = prev.monthly_expenses
            /\ txn.cash_balance =
                 (IF cash_flow_data.cash_balance + effect.money_change < 0
                  THEN 0 ELSE cash_flow_data.cash_balance + effect.money_change)
        /\ ~cash_flow_data.applied =>
            txn.cash_balance =
                 (IF prev.money + effect.money_change < 0
                  THEN 0 ELSE prev.money + effect.money_change)

\* the third month's cash flow fired on a step whose effect changes income
C6_Witness ==
    /\ op = "process_decision"
    /\ cash_flow_data.applied
    /\ flow_log = 3
    /\ prev.months_passed = 2
    /\ effect.income_change # 0

ClampedTo100(v) == IF v < 0 THEN 0 ELSE IF v > 100 THEN 100 ELSE v

\* C7: after apply_decision_effects each life metric is an integer in
\* [0,100], equal to current + delta clamped into [0,100].
C7_LifeMetricsClamped ==
    /\ state.energy \in 0..100
    /\ state.motivation \in 0..100
    /\ state.social_life \in 0..100
    /\ state.financial_knowledge \in 0..100
    /\ IsEffectsCall =>
        /\ state.energy = ClampedTo100(prev.energy + effect.energy_change)
        /\ state.motivation = ClampedTo100(prev.motivation + effect.motivation_change)
        /\ state.social_life = ClampedTo100(prev.social_life + effect.social_change)
        /\ state.financial_knowledge =
              ClampedTo100(prev.financial_knowledge + effect.knowledge_change)

\* a delta far above the range was cut at 100
C7_Witness ==
    /\ IsEffectsCall
    /\ prev.energy + effect.energy_change > 100
    /\ state.energy = 100

FloorsHold(s) ==
    /\ s.expense_housing >= 300
    /\ s.expense_food >= 150
    /\ s.expense_transport >= 30
    /\ s.expense_utilities >= 50
    /\ s.expense_subscriptions >= 0
    /\ s.expense_insurance >= 20
    /\ s.expense_other >= 20

\* C8: a state whose seven categories are at or above their minimums keeps
\* them at or above the minimums after apply_decision_effects.
C8_CategoriesStayAboveMinimums ==
    (IsEffectsCall /\ FloorsHold(prev)) => FloorsHold(state)

\* C9: with months_passed = 0, in any phase and with any risk factors and
\* debt, get_event_type never returns "curveball" and
\* should_trigger_curveball returns false.
C9_FirstMonthImmunity ==
    /\ (call.fn = "get_event_type" /\ call.state.months_passed = 0)
          => result.event_type # "curveball"
    /\ (call.fn = "should_trigger_curveball" /\ call.state.months_passed = 0)
          => result.triggered = FALSE

\* the riskiest first-month state was asked for an event in phase 2
C9_Witness ==
    /\ call.fn = "get_event_type"
    /\ call.state.months_passed = 0
    /\ call.state.month_phase = 2
    /\ call.state.risk_factors.has_car
    /\ call.state.risk_factors.has_pet
    /\ call.state.debts > 3 * call.state.monthly_income
    /\ result.event_type \in {PHASE_2_3_EVENTS[i] : i \in 1..Len(PHASE_2_3_EVENTS)}

HelsinkiAreaSpellings ==
    { <<"H","e","l","s","i","n","k","i">>, <<"H","E","L","S","I","N","K","I">>,
      <<"e","s","p","o","o">>, <<"V","a","n","t","a","a">> }

CategoryFloor(category, city) ==
    CASE category = "housing" -> IF city \in HelsinkiAreaSpellings THEN 400 ELSE 300
      [] category = "food" -> 150
      [] category = "transport" -> 30
      [] category = "utilities" -> 50
      [] category = "subscriptions" -> 0
      [] category = "insurance" -> 20
      [] category = "other" -> 20

\* C10: validate_expense_change returns floor - current_value with a
\* non-empty warning when current_value + delta is below the floor (also
\* when current_value already is), and the requested delta with an empty
\* warning otherwise; the housing floor is 400 in Helsinki, Espoo and
\* Vantaa in any letter case and 300 elsewhere.
C10_ValidateExpenseChange ==
    (call.fn = "validate_expense_change" /\ call.category \in ExpenseCategories) =>
        LET floor == CategoryFloor(call.category, call.city)
        IN  IF call.current_value + call.change < floor
            THEN /\ result.allowed_change = floor - call.current_value
                 /\ call.current_value + result.allowed_change = floor
                 /\ result.warning # <<>>
            ELSE /\ result.allowed_change = call.change
                 /\ result.warning = <<>>

\* a value already below the food floor is lifted to the floor
C10_Witness ==
    /\ call.fn = "validate_expense_change"
    /\ call.category = "food"
    /\ call.current_value = 140
    /\ call.change = -20
    /\ result.allowed_change = 10
    /\ result.warning # <<>>

\* C11: for every total in whole cents, lifestyle level 1..4 and either
\* has_car, the seven values of calculate_expense_breakdown sum to the
\* total, "other" absorbing what the six rounded categories leave.
C11_BreakdownSumsToTotal ==
    call.fn = "calculate_expense_breakdown" =>
        result.expense_housing + result.expense_food + result.expense_transport
        + result.expense_utilities + result.expense_subscriptions
        + result.expense_insurance + result.expense_other = call.total_expenses

\* six cents with a car, frugal: "other" takes the cent its share rounds away
C11_Witness ==
    /\ call.fn = "calculate_expense_breakdown"
    /\ call.total_expenses = 6
    /\ call.has_car
    /\ call.lifestyle_level = 1
    /\ result.expense_housing = 2
    /\ result.expense_food = 1
    /\ result.expense_other = 1

\* the documented bands, in hundredths
MultiplierBand ==
    [major_gain |-> <<120, 135>>, gain |-> <<105, 115>>, neutral |-> <<98, 102>>,
     minor_loss |-> <<90, 95>>, loss |-> <<70, 85>>, major_loss |-> <<30, 60>>]

AnnualYieldPercent ==
    [index_fund |-> 5, tech_stocks |-> 8, bonds |-> 3, savings_account |-> 1,
     crypto |-> 10, real_estate |-> 6]

IsOutcome == call.fn = "calculate_investment_outcome" /\ "money_change" \in DOMAIN result

\* C12 as stated: the four deltas equal the exact products, for some
\* multiplier inside the band.
C12_ExactOutcome ==
    IsOutcome =>
        LET p == call.principal
            band == MultiplierBand[call.result_quality]
            y == AnnualYieldPercent[call.asset_type]
        IN  CASE p > 0 ->
                    /\ result.money_change = 0 - p
                    /\ band[1] * p <= result.investment_change * 100
                    /\ result.investment_change * 100 <= band[2] * p
                    /\ result.passive_income_change * 1200 = result.investment_change * y
                    /\ result.net_gain_loss = result.investment_change - p
              [] p < 0 ->
                    /\ result.investment_change = p
                    /\ band[1] * abs(p) <= result.money_change * 100
                    /\ result.money_change * 100 <= band[2] * abs(p)
                    /\ result.passive_income_change * 1200 = result.investment_change * y
                    /\ result.net_gain_loss = result.money_change - abs(p)
              [] OTHER -> result = ZeroOutcome

\* x is num / den rounded to the nearest cent
NearestCent(x, num, den) == 2 * abs(x * den - num) <= den

\* C12 amended: with m the multiplier drawn inside the band (thousandths),
\* each delta is the stated quantity rounded to the nearest cent, the
\* passive income taken from the unrounded investment change; a zero
\* principal gives four zeros.
C12_RoundedOutcome ==
    IsOutcome =>
        LET p == call.principal
            band == MultiplierBand[call.result_quality]
            m == band[1] * 10 + ((band[2] - band[1]) * call.u) \div 10
            y == AnnualYieldPercent[call.asset_type]
        IN  /\ band[1] * 10 <= m /\ m <= band[2] * 10
            /\ CASE p > 0 ->
                    /\ result.money_change = 0 - p
                    /\ NearestCent(result.investment_change, p * m, 1000)
                    /\ NearestCent(result.passive_income_change, p * m * y, 1200000)
                    /\ NearestCent(result.net_gain_loss, p * (m - 1000), 1000)
                 [] p < 0 ->
                    /\ NearestCent(result.money_change, abs(p) * m, 1000)
                    /\ result.investment_change = p
                    /\ NearestCent(result.passive_income_change, p * y, 1200)
                    /\ NearestCent(result.net_gain_loss, abs(p) * (m - 1000), 1000)
                 [] OTHER -> result = ZeroOutcome

\* 1000.00 into an index fund at the bottom of the gain band: 1050.00
\* invested, 4.38 a month where the exact product is 4.375
C12_Witness ==
    /\ IsOutcome
    /\ call.principal = 100000
    /\ call.asset_type = "index_fund"
    /\ call.result_quality = "gain"
    /\ call.u = 0
    /\ result.investment_change = 105000
    /\ result.passive_income_change = 438
    /\ result.net_gain_loss = 5000

\* C13: an asset_type or result_quality outside the enums makes
\* calculate_investment_outcome fail with the invalid-enum error and return
\* no deltas, for every principal, zero included.
C13_InvalidEnumRejected ==
    (/\ call.fn = "calculate_investment_outcome"
     /\ \/ call.asset_type \notin DOMAIN AnnualYieldPercent
        \/ call.result_quality \notin DOMAIN MultiplierBand) =>
        /\ DOMAIN result = {"error"}
        /\ result.error = "ValueError"

\* a zero principal with an unknown asset is still an error
C13_Witness ==
    /\ call.fn = "calculate_investment_outcome"
    /\ call.principal = 0
    /\ call.asset_type = "gold"
    /\ call.result_quality = "gain"
    /\ DOMAIN result = {"error"}

\* C14: a category that is not one of the seven makes
\* validate_expense_change fail instead of returning an
\* (allowed_delta, warning) pair.
C14_UnknownCategoryFailsFast ==
    (call.fn = "validate_expense_change" /\ call.category \notin ExpenseCategories) =>
        "allowed_change" \notin DOMAIN result

\* C15: validate_balance_sheet answers (false, message) when
\* money_before + money_change is negative and (true, message) for every
\* transaction with sufficient funds whose change of total wealth is
\* money_change + investment_change to within a cent.
C15_BalanceSheet ==
    call.fn = "validate_balance_sheet" =>
        LET after == (call.money_before + call.money_change)
                     + (call.investments_before + call.investment_change)
            before == call.money_before + call.investments_before
            consistent ==
                abs((after - before) - (call.money_change + call.investment_change)) <= 1
        IN  /\ DOMAIN result = {"valid", "message"}
            /\ call.money_before + call.money_change < 0 => result.valid = FALSE
            /\ (call.money_before + call.money_change >= 0 /\ consistent) =>
                    result.valid = TRUE

\* 1000.00 of 2000.00 moved into investments worth 1100.00 afterwards
C15_Witness ==
    /\ call.fn = "validate_balance_sheet"
    /\ call.money_before = 200000
    /\ call.investments_before = 500000
    /\ call.money_change = -100000
    /\ call.investment_change = 110000
    /\ result.valid = TRUE

\* C16: outside phase 1 apply_monthly_cash_flow leaves every field of the
\* state as it was and reports applied = False, zero cash_change,
\* income_received, expenses_paid and debt_from_deficit, and the unchanged
\* money as cash_balance.
C16_NoCashFlowOutsidePhaseOne ==
    (op = "apply_monthly_cash_flow" /\ prev.month_phase # 1) =>
        /\ state = prev
        /\ cash_flow_data = [cash_change |-> 0, income_received |-> 0,
                             expenses_paid |-> 0, debt_from_deficit |-> 0,
                             cash_balance |-> prev.money, applied |-> FALSE]

\* the cash flow was asked for on the second step of a month
C16_Witness ==
    /\ op = "apply_monthly_cash_flow"
    /\ prev.month_phase = 2
    /\ prev.monthly_income > prev.monthly_expenses
    /\ state.money = prev.money
    /\ ~cash_flow_data.applied

\* C17: in phase 1, with net = monthly_income + passive_income -
\* monthly_expenses, money becomes max(0, money + net), debts grow by
\* max(0, -(money + net)) and by nothing else, debt_from_deficit is that
\* amount, cash_change is net, applied is True and no other field changes.
C17_PhaseOneCashFlow ==
    (op = "apply_monthly_cash_flow" /\ prev.month_phase = 1) =>
        LET net == (prev.monthly_income + prev.passive_income) - prev.monthly_expenses
            deficit == Max(0, 0 - (prev.money + net))
        IN  /\ state = [prev EXCEPT !.money = Max(0, prev.money + net),
                                    !.debts = prev.debts + deficit]
            /\ cash_flow_data.debt_from_deficit = deficit
            /\ cash_flow_data.cash_change = net
            /\ cash_flow_data.applied = TRUE

\* a month whose passive income counted and a month that ended in deficit
C17_Witness ==
    /\ op = "apply_monthly_cash_flow"
    /\ prev.month_phase = 1
    /\ prev.passive_income # 0
    /\ cash_flow_data.applied
    /\ cash_flow_data.cash_change = (prev.monthly_income + prev.passive_income)
                                    - prev.monthly_expenses
    /\ state.money = prev.money + cash_flow_data.cash_change

IsOutcomes == call.fn = "get_event_type, every draw"

\* C18: in phase 1 get_event_type returns "debt_payment_plan" on every draw
\* when debts > 2 x monthly_income; otherwise it returns one of the five
\* phase-1 events, each of them on some draw, and never a phase-2/3 event.
C18_PhaseOneEvents ==
    /\ (call.fn = "get_event_type" /\ call.state.month_phase = 1) =>
        /\ result.event_type \in {"monthly_budget", "savings_decision",
                                  "investment_planning", "debt_payment_plan",
                                  "income_review"}
        /\ call.state.debts > 2 * call.state.monthly_income =>
                result.event_type = "debt_payment_plan"
    /\ (IsOutcomes /\ call.state.month_phase = 1) =>
        result.possible =
            IF call.state.debts > 2 * call.state.monthly_income
            THEN {"debt_payment_plan"}
            ELSE {"monthly_budget", "savings_decision", "investment_planning",
                  "debt_payment_plan", "income_review"}

\* debts of exactly twice the income still leave all five events open
C18_Witness ==
    /\ IsOutcomes
    /\ call.state.month_phase = 1
    /\ call.state.debts = 2000
    /\ call.state.monthly_income = 1000
    /\ Cardinality(result.possible) = 5

AlwaysWeighted ==
    {"social_event", "small_purchase", "minor_emergency", "daily_choice",
     "entertainment_option", "maintenance_issue", "unexpected_expense"}

\* C19: in phases 2 and 3 get_event_type returns "curveball" or one of the
\* eight phase-2/3 events of weight above zero: side_hustle_opportunity is
\* returned on no draw when motivation <= 60 (and on some draw above 60),
\* and each of the other seven is returned on some draw in every state.
C19_PhaseTwoThreeEvents ==
    /\ (call.fn = "get_event_type" /\ call.state.month_phase \in {2, 3}) =>
        /\ result.event_type
             \in AlwaysWeighted \cup {"curveball", "side_hustle_opportunity"}
        /\ call.state.motivation <= 60 =>
                result.event_type # "side_hustle_opportunity"
    /\ (IsOutcomes /\ call.state.month_phase \in {2, 3}) =>
        /\ result.possible
             \subseteq AlwaysWeighted \cup {"curveball", "side_hustle_opportunity"}
        /\ AlwaysWeighted \subseteq result.possible
        /\ ("side_hustle_opportunity" \in result.possible) = (call.state.motivation > 60)

\* a motivation of exactly 60 closes the side hustle and nothing else
C19_Witness ==
    /\ IsOutcomes
    /\ call.state.month_phase = 2
    /\ call.state.motivation = 60
    /\ "side_hustle_opportunity" \notin result.possible
    /\ "daily_choice" \in result.possible
    /\ "curveball" \in result.possible

\* C20: every curveball of generate_curveball_event carries exactly one of
\* cost, gain and monthly_cost; the candidate list is never empty; car_repair
\* and insurance_increase come only with has_car, vet_bill only with
\* has_pet, tax_refund and bonus_large only in month_phase 1.
C20_CurveballShape ==
    call.fn = "generate_curveball_event" =>
        /\ result.candidates >= 2
        /\ "type" \in DOMAIN result.curveball
        /\ Cardinality(DOMAIN result.curveball \cap {"cost", "gain", "monthly_cost"}) = 1
        /\ result.curveball.type \in {"car_repair", "insurance_increase"} =>
                call.state.risk_factors.has_car
        /\ result.curveball.type = "vet_bill" => call.state.risk_factors.has_pet
        /\ result.curveball.type \in {"tax_refund", "bonus_large"} =>
                call.state.month_phase = 1

\* the one curveball with a monthly cost, for a car owner in phase 1
C20_Witness ==
    /\ call.fn = "generate_curveball_event"
    /\ call.state.month_phase = 1
    /\ call.state.risk_factors.has_car
    /\ result.curveball.type = "insurance_increase"
    /\ result.curveball.monthly_cost = 60
    /\ result.candidates = 6 \/ result.candidates = 7

\* the cost or gain a curveball carries
Magnitude(curveball) ==
    IF "cost" \in DOMAIN curveball THEN curveball.cost
    ELSE IF "gain" \in DOMAIN curveball THEN curveball.gain
    ELSE curveball.monthly_cost

\* what the generator offers for a type to the same player in phase 1
PhaseOneMagnitude(s, type) ==
    LET early == curveballs_of([s EXCEPT !.month_phase = 1])
        i == CHOOSE i \in 1..Len(early) : early[i].type = type
    IN  Magnitude(early[i])

IsLateCurveball ==
    /\ call.fn = "generate_curveball_event"
    /\ call.state.month_phase \in {2, 3}
    /\ "type" \in DOMAIN result.curveball

\* C21 as stated: for car_repair, vet_bill, bonus and tech_repair the cost
\* or gain of phase 2/3 is 0.4 times the one of phase 1.
C21_ScaledFromPhaseOne ==
    (IsLateCurveball
     /\ result.curveball.type \in {"car_repair", "vet_bill", "bonus", "tech_repair"}) =>
        10 * Magnitude(result.curveball)
            = 4 * PhaseOneMagnitude(call.state, result.curveball.type)

\* C21 amended: for vet_bill, bonus and tech_repair the cost or gain of
\* phase 2/3 is 0.4 times the one of phase 1; car_repair costs 1200 in
\* phase 1 and 100 (0.4 x 250) in phase 2/3.
C21_ScaledExceptCarRepair ==
    IsLateCurveball =>
        /\ result.curveball.type \in {"vet_bill", "bonus", "tech_repair"} =>
                10 * Magnitude(result.curveball)
                    = 4 * PhaseOneMagnitude(call.state, result.curveball.type)
        /\ result.curveball.type = "car_repair" =>
                /\ result.curveball.cost = 100
                /\ PhaseOneMagnitude(call.state, "car_repair") = 1200

\* a car owner with a pet mid-month draws the small car repair
C21_Witness ==
    /\ IsLateCurveball
    /\ call.state.risk_factors.has_car
    /\ call.state.risk_factors.has_pet
    /\ result.curveball.type = "car_repair"
    /\ result.curveball.cost = 100
    /\ PhaseOneMagnitude(call.state, "vet_bill") = 800

\* the breakdown of the same total for the same player at the moderate level
Moderate(tie_up) ==
    calculate_expense_breakdown(call.total_expenses, <<"H","e","l","s","i","n","k","i">>,
                                call.has_car, 2, tie_up)

\* C22: for the same total_expenses > 0 and the same has_car, the breakdown
\* at lifestyle_level 1 gives more to housing and more to food than at
\* level 2, and at lifestyle_level 4 more to food, more to subscriptions and
\* more to other than at level 2.
C22_LifestyleShifts ==
    (call.fn = "calculate_expense_breakdown" /\ call.total_expenses > 0) =>
        \A tie_up \in BOOLEAN :
            /\ call.lifestyle_level = 1 =>
                /\ result.expense_housing > Moderate(tie_up).expense_housing
                /\ result.expense_food > Moderate(tie_up).expense_food
            /\ call.lifestyle_level = 4 =>
                /\ result.expense_food > Moderate(tie_up).expense_food
                /\ result.expense_subscriptions > Moderate(tie_up).expense_subscriptions
                /\ result.expense_other > Moderate(tie_up).expense_other

\* the change-time impact of a level that does not change, a missing metric
\* counting as 0
ImpactAt(category, metric) ==
    DictGet(calculate_health_impact(category, DictGet(call.expenses, category, 0), 0),
            metric, 0)

SumOfImpacts(metric) ==
    ImpactAt("food", metric) + ImpactAt("housing", metric) + ImpactAt("transport", metric)

\* C23: for any levels of food, housing and transport the energy,
\* motivation and social deltas of calculate_monthly_health_impact are the
\* sums over the three categories of calculate_health_impact(category,
\* value, 0), the knowledge delta is 0 and all four keys are present.
C23_MonthlyImpactMatches ==
    call.fn = "calculate_monthly_health_impact" =>
        /\ DOMAIN result = {"energy", "motivation", "social", "knowledge"}
        /\ result.energy = SumOfImpacts("energy")
        /\ result.motivation = SumOfImpacts("motivation")
        /\ result.social = SumOfImpacts("social")
        /\ result.knowledge = 0

NetWorth(s) == s.money + s.investments - s.debts

\* C25: apply_decision_effects changes net worth (money + investments -
\* debts) by exactly money_change + investment_change - debt_change of the
\* effect, apply_monthly_cash_flow in phase 1 by exactly monthly_income +
\* passive_income - monthly_expenses; the cash-to-debt conversion leaves
\* net worth alone.
C25_NetWorthIntegrity ==
    /\ IsEffectsCall =>
        /\ NetWorth(state) - NetWorth(prev)
             = (effect.money_change + effect.investment_change) - effect.debt_change
        /\ calculate_net_worth(state.money, state.investments, state.debts)
             = NetWorth(state)
    /\ (op = "apply_monthly_cash_flow" /\ prev.month_phase = 1) =>
        NetWorth(state) - NetWorth(prev)
            = (prev.monthly_income + prev.passive_income) - prev.monthly_expenses

\* an effect that moves cash, investments and debt at once and overdraws
C25_Witness ==
    /\ IsEffectsCall
    /\ effect.money_change = -700
    /\ effect.investment_change = 100
    /\ effect.debt_change = 40
    /\ prev.money < 700
    /\ state.money = 0
    /\ NetWorth(state) = NetWorth(prev) - 640

\* C26: the summary of apply_decision_effects reconciles with the state:
\* cash_balance = money before + cash_change, investment_balance =
\* investments before + investment_change, debt_balance = debts before +
\* debt_change, for every effect, the cash-to-debt conversion included.
C26_SummaryReconciles ==
    IsEffectsCall =>
        /\ txn.cash_balance = prev.money + txn.cash_change
        /\ txn.investment_balance = prev.investments + txn.investment_change
        /\ txn.debt_balance = prev.debts + txn.debt_change

\* C28: in every state reached from the initial one by
\* apply_decision_effects and apply_monthly_cash_flow in any order,
\* month_phase is 1, 2 or 3, current_step = 3 x months_passed +
\* (month_phase - 1), 12 x years_passed = months_passed (years_passed is
\* held in twelfths) and current_age = starting age + floor(months_passed / 12).
C28_ClockInvariant ==
    /\ state.month_phase \in {1, 2, 3}
    /\ state.current_step = 3 * state.months_passed + (state.month_phase - 1)
    /\ state.years_passed = state.months_passed
    /\ state.current_age = 25 + state.months_passed \div 12

\* a year and a month in, mid-month
C28_Witness ==
    /\ state.months_passed = 12
    /\ state.month_phase = 2
    /\ state.current_step = 37
    /\ state.current_age = 26

\* C29: get_event_type returns "curveball" only in month_phase 2 or 3, so
\* the curveball generated for the state it was returned for is built
\* with scale 0.4 (car_repair 100, vet_bill 320, bonus 160, tech_repair
\* 120), is of one of those four types and carries a cost or a gain, never
\* a monthly_cost.
C29_CurveballsAreLate ==
    /\ (call.fn = "get_event_type" /\ result.event_type = "curveball") =>
            call.state.month_phase \in {2, 3}
    /\ (IsOutcomes /\ "curveball" \in result.possible) =>
            call.state.month_phase \in {2, 3}
    /\ (call.fn = "generate_and_cache_next_question"
        /\ result.next_event_type = "curveball") =>
        /\ call.state.month_phase \in {2, 3}
        /\ "type" \in DOMAIN result.next_curveball
        /\ "monthly_cost" \notin DOMAIN result.next_curveball
        /\ CASE result.next_curveball.type = "car_repair" ->
                    result.next_curveball.cost = 100
             [] result.next_curveball.type = "vet_bill" ->
                    result.next_curveball.cost = 320
             [] result.next_curveball.type = "bonus" ->
                    result.next_curveball.gain = 160
             [] result.next_curveball.type = "tech_repair" ->
                    result.next_curveball.cost = 120
             [] OTHER -> FALSE

\* a late-month curveball for a pet owner
C29_Witness ==
    /\ call.fn = "generate_and_cache_next_question"
    /\ result.next_event_type = "curveball"
    /\ call.state.month_phase = 3
    /\ result.next_curveball.type = "vet_bill"
    /\ result.next_curveball.cost = 320

IsDecisionOptionsCall == call.fn = "create_decision_options"

\* C30: create_decision_options never returns an empty list for an event
\* type get_event_type produces: "curveball" with the curveball generated
\* for it yields the three curveball options (pay, borrow, negotiate for a
\* cost; save, invest, treat for a gain); social_event yields the three
\* options of its registered generator; every other phase-1 and phase-2/3
\* event name has no registered generator and yields the three budget
\* options.
C30_OptionsNeverEmpty ==
    IsDecisionOptionsCall =>
        LET options == result.options
            n == Len(options)
        IN  /\ n \in 2..4
            /\ IF call.event_type = "curveball" /\ DOMAIN call.curveball # {}
               THEN /\ n = 3
                    /\ options = create_curveball_options(call.curveball, call.state)
                    /\ \/ /\ "cost" \in DOMAIN call.curveball
                          /\ options[1].setup.money_change = 0 - call.curveball.cost * 100
                          /\ options[2].setup.debt_change = call.curveball.cost * 100
                       \/ /\ "gain" \in DOMAIN call.curveball
                          /\ options[1].setup.money_change = call.curveball.gain * 100
                          /\ options[2].setup.investment_change = call.curveball.gain * 100
               ELSE IF call.event_type = "social_event"
               THEN options = create_social_options(call.state)
               ELSE /\ call.event_type \notin DOMAIN option_generators
                    /\ options = create_budget_options(call.state)

\* a late-month event without a registered generator falls back to the
\* three budget options
C30_Witness ==
    /\ IsDecisionOptionsCall
    /\ call.state.month_phase = 2
    /\ call.event_type = "side_hustle_opportunity"
    /\ Len(result.options) = 3
    /\ result.options[1].fallback_text = "Create a detailed budget using the 50/30/20 rule"
    /\ setup_option_effect(result.options[2]).money_change = -500

ExpenseCategoryChanges(e) ==
    << e.expense_housing_change, e.expense_food_change, e.expense_transport_change,
       e.expense_utilities_change, e.expense_subscriptions_change,
       e.expense_insurance_change, e.expense_other_change >>

ExpenseCategoryValues(s) ==
    << s.expense_housing, s.expense_food, s.expense_transport, s.expense_utilities,
       s.expense_subscriptions, s.expense_insurance, s.expense_other >>

\* the effects, in whole euros, of the three options built for the
\* insurance increase of a car owner
MonthlyCostOptionEffects ==
    LET owner == [DefaultState EXCEPT !.risk_factors.has_car = TRUE]
        options == create_curveball_options(car_curveballs(owner, 10)[2], owner)
    IN  { [setup_option_effect(options[i]) EXCEPT !.expense_change = @ \div 100] :
            i \in 1..Len(options) }

\* C27: on a state whose monthly_expenses equals the sum of its categories,
\* an effect with a nonzero expense_change and no category delta (the three
\* monthly_cost curveball options among them) leaves monthly_expenses and
\* all seven categories as they were, while the summary reports
\* monthly_expense_change = expense_change.
C27_AggregateExpenseChangeDropped ==
    ( /\ IsEffectsCall
      /\ prev.monthly_expenses = SumOfCategories(prev)
      /\ effect.expense_change # 0
      /\ ExpenseCategoryChanges(effect) = <<0, 0, 0, 0, 0, 0, 0>> ) =>
        /\ state.monthly_expenses = prev.monthly_expenses
        /\ ExpenseCategoryValues(state) = ExpenseCategoryValues(prev)
        /\ txn.monthly_expense_change = effect.expense_change

\* the "look for alternatives" option of the insurance increase was applied:
\* 30 a month reported, nothing added to the expenses
C27_Witness ==
    /\ IsEffectsCall
    /\ effect \in MonthlyCostOptionEffects
    /\ effect.expense_change = 30
    /\ effect.knowledge_change = 10
    /\ prev.monthly_expenses = SumOfCategories(prev)
    /\ state.monthly_expenses = prev.monthly_expenses
    /\ txn.monthly_expense_change = 30

====
